---- MODULE Spec2Model ----
(***************************************************************************)
(* Model of the two Tauri command modules of lingo-leap:                   *)
(*   src-tauri/src/whisper_stt.rs    transcription through external CLIs   *)
(*   src-tauri/src/audio_session.rs  AVAudioSession activate / deactivate  *)
(*                                                                         *)
(* transcribe_audio is an async command: several invocations can be in     *)
(* progress at once, in one process or in several processes that share the *)
(* temporary directory.  Each invocation is modelled as a sequence of      *)
(* steps, one per file-system operation or subprocess run, so that the     *)
(* steps of different invocations interleave.  The external tools are      *)
(* black boxes: an installed tool may exit with either status and may or   *)
(* may not write its output artifact.                                      *)
(***************************************************************************)
EXTENDS Integers, Sequences, FiniteSets, TLC

VARIABLES
    installed,   \* commands that Command::new(..).output() can start
    fs,          \* the temporary directory: path -> file content or NoFile
    pc,          \* position of each transcribe_audio call
    pid,         \* std::process::id() of the process running each call
    tried,       \* per call: the candidates invoked so far, with what happened
    result,      \* per call: value of `result` / the value returned
    avail,       \* last value returned by check_whisper_available
    platform,    \* target_os the audio module was compiled for
    sessionActive, \* state of the shared audio session
    audioLog     \* audio-session commands issued so far, with their results

vars == <<installed, fs, pc, pid, tried, result, avail,
          platform, sessionActive, audioLog>>

sttVars == <<installed, fs, pc, pid, tried, result, avail>>
audioVars == <<platform, sessionActive, audioLog>>

(***************************************************************************)
(* Bounds                                                                  *)
(***************************************************************************)
NumCalls == 2        \* transcribe_audio invocations
NumProcs == 2        \* processes sharing the temporary directory
MaxAudioCalls == 3   \* audio-session commands issued

Calls == 1..NumCalls
Pids == 1..NumProcs

NoFile == [absent |-> TRUE]

(***************************************************************************)
(* Text: a string is a sequence of characters; str::trim removes leading   *)
(* and trailing whitespace.                                                *)
(***************************************************************************)
Whitespace == {" ", "\n", "\t"}

RECURSIVE trim_start(_)
trim_start(s) ==
    IF s = <<>> THEN <<>>
    ELSE IF Head(s) \in Whitespace THEN trim_start(Tail(s))
    ELSE s

RECURSIVE trim_end(_)
trim_end(s) ==
    IF s = <<>> THEN <<>>
    ELSE IF s[Len(s)] \in Whitespace THEN trim_end(SubSeq(s, 1, Len(s) - 1))
    ELSE s

trim(s) == trim_end(trim_start(s))

\* what a tool may leave in its artifact or on stdout
Texts == { <<>>, <<"\n">>, <<" ", "a", " ", "b", "\n">> }
\* file content that is not valid UTF-8: read_to_string fails on it
InvalidByte == "\\xFF"
NotUtf8 == <<"a", InvalidByte>>
ArtifactTexts == Texts \cup {NotUtf8}
\* what one run of a tool wrote to its artifact: nothing, or one text
Written == {{}} \cup {{t} : t \in ArtifactTexts}

(***************************************************************************)
(* Results                                                                 *)
(***************************************************************************)
ErrDecode == "Failed to decode audio"
ErrCreate == "Failed to create temp file"
ErrWrite == "Failed to write audio"
ErrExhausted ==
    "Whisper not available. Install whisper.cpp: https://github.com/ggerganov/whisper.cpp"

Err(msg) == [tag |-> "Err", msg |-> msg]
\* `from` records which run of which command produced the text and what it
\* was before trimming
Ok(text, from) == [tag |-> "Ok", text |-> text, from |-> from]

(***************************************************************************)
(* Commands and temporary paths                                            *)
(***************************************************************************)
\* the probe list of check_whisper_available
probe_commands == <<"whisper", "whisper-cpp", "main">>
\* the candidate list of try_whisper_cli, in declaration order
whisper_commands == <<"whisper", "whisper-cpp">>
faster_whisper == "faster-whisper"
Cmds == {"whisper", "whisper-cpp", "main", "faster-whisper"}

\* temp_dir.join(format!("whisper_input_{}.wav", std::process::id()))
audio_path(p) == [stem |-> "whisper_input", id |-> p, ext |-> "wav"]
\* temp_dir.join(format!("whisper_output_{}", std::process::id()))
output_path(p) == [stem |-> "whisper_output", id |-> p, ext |-> ""]
\* PathBuf::with_extension
with_extension(path, e) == [path EXCEPT !.ext = e]
txt_path(p) == with_extension(output_path(p), "txt")

Paths == {audio_path(p) : p \in Pids} \cup {txt_path(p) : p \in Pids}

\* the payload of a request: its base64 text either decodes to the bytes of
\* that request or is rejected by the decoder
AudioData(c) == { [valid |-> FALSE, bytes |-> c], [valid |-> TRUE, bytes |-> c] }
decode(d) == IF d.valid THEN [tag |-> "Ok", bytes |-> d.bytes] ELSE Err(ErrDecode)

(***************************************************************************)
(* check_whisper_available                                                 *)
(***************************************************************************)
\* Command::new(cmd).arg("--help").output().is_ok()
can_start(cmd) == cmd \in installed

RECURSIVE any_starts(_)
any_starts(cmds) ==
    IF cmds = <<>> THEN FALSE
    ELSE IF can_start(Head(cmds)) THEN TRUE
    ELSE any_starts(Tail(cmds))

\* the probe without its faster-whisper check
check_without_fallback == [tag |-> "Ok", value |-> any_starts(probe_commands)]

check_whisper_available ==
    IF any_starts(probe_commands) THEN [tag |-> "Ok", value |-> TRUE]
    ELSE IF can_start(faster_whisper) THEN [tag |-> "Ok", value |-> TRUE]
    ELSE [tag |-> "Ok", value |-> FALSE]

CheckWhisperAvailable ==
    /\ avail' = check_whisper_available
    /\ UNCHANGED <<installed, fs, pc, pid, tried, result>>
    /\ UNCHANGED audioVars

(***************************************************************************)
(* transcribe_audio                                                        *)
(***************************************************************************)
\* what a tool finds at the input path it was given
\* one entry of a call's record of the candidates it has invoked:
\*   not_found   the command could not be started
\*   failed      it exited with a failure status
\*   success     it exited successfully (its artifact not yet read)
\*   unreadable  it exited successfully, read_to_string failed
\*   ok          it exited successfully and its output was taken
Attempt(cmd, obs) == [cmd |-> cmd, obs |-> obs]

\* lines 51-60: decode the payload, compute the two paths
Begin(c) ==
    /\ pc[c] = "idle"
    /\ \E p \in Pids, d \in AudioData(c) :
         LET r == decode(d) IN
         IF r.tag = "Err"
         THEN /\ pc' = [pc EXCEPT ![c] = "done"]
              /\ result' = [result EXCEPT ![c] = r]
              /\ UNCHANGED pid
         ELSE /\ pc' = [pc EXCEPT ![c] = "create"]
              /\ pid' = [pid EXCEPT ![c] = p]
              /\ UNCHANGED result
    /\ UNCHANGED <<installed, fs, tried, avail>>
    /\ UNCHANGED audioVars

\* lines 63-64: File::create truncates or creates; `?` returns on failure
FileCreate(c) ==
    /\ pc[c] = "create"
    /\ \E ok \in BOOLEAN :
         IF ok
         THEN /\ fs' = [fs EXCEPT ![audio_path(pid[c])] = [by |-> c, full |-> FALSE]]
              /\ pc' = [pc EXCEPT ![c] = "write"]
              /\ UNCHANGED result
         ELSE /\ pc' = [pc EXCEPT ![c] = "done"]
              /\ result' = [result EXCEPT ![c] = Err(ErrCreate)]
              /\ UNCHANGED fs
    /\ UNCHANGED <<installed, pid, tried, avail>>
    /\ UNCHANGED audioVars

\* the file as it is after write_all through the handle opened by File::create:
\* a path unlinked in the meantime stays absent
written(c) ==
    IF fs[audio_path(pid[c])] = NoFile THEN fs
    ELSE [fs EXCEPT ![audio_path(pid[c])] = [by |-> c, full |-> TRUE]]

\* write_all whose error is kept but does not end the call
WriteAllIgnoringFailure(c) ==
    /\ pc[c] = "write"
    /\ \E ok \in BOOLEAN :
         /\ fs' = IF ok THEN written(c) ELSE fs
         /\ pc' = [pc EXCEPT ![c] = "run"]
         /\ result' = IF ok THEN result ELSE [result EXCEPT ![c] = Err(ErrWrite)]
    /\ UNCHANGED <<installed, pid, tried, avail>>
    /\ UNCHANGED audioVars

\* lines 65-67: write_all; `?` returns on failure, without any cleanup
WriteAll(c) ==
    /\ pc[c] = "write"
    /\ \E ok \in BOOLEAN :
         IF ok
         THEN /\ fs' = written(c)
              /\ pc' = [pc EXCEPT ![c] = "run"]
              /\ UNCHANGED result
         ELSE /\ pc' = [pc EXCEPT ![c] = "done"]
              /\ result' = [result EXCEPT ![c] = Err(ErrWrite)]
              /\ UNCHANGED fs
    /\ UNCHANGED <<installed, pid, tried, avail>>
    /\ UNCHANGED audioVars

(***************************************************************************)
(* try_whisper_cli                                                         *)
(***************************************************************************)
\* a loop that stops at its first candidate
give_up_after(k) == "fallback"

\* where the loop of lines 105-120 goes when candidate k did not return
next_after(k) == IF k < Len(whisper_commands) THEN "run" ELSE "fallback"

\* line 106: Command::new(cmd).args(..).output() for the next candidate of the
\* loop.  A started tool exits with either status and may write <-of>.txt.
RunCandidate(c) ==
    /\ pc[c] = "run"
    /\ LET k == Len(tried[c]) + 1
           cmd == whisper_commands[k]
       IN
       IF ~can_start(cmd)
       THEN \* line 118: Err(_) => continue
            /\ tried' = [tried EXCEPT ![c] = Append(@, Attempt(cmd, "not_found"))]
            /\ pc' = [pc EXCEPT ![c] = next_after(k)]
            /\ UNCHANGED fs
       ELSE \E success \in BOOLEAN, wrote \in Written :
            /\ fs' = IF wrote = {} THEN fs
                     ELSE [fs EXCEPT ![txt_path(pid[c])] =
                             [by |-> c, cmd |-> cmd, text |-> CHOOSE t \in wrote : TRUE]]
            /\ tried' = [tried EXCEPT ![c] =
                           Append(@, Attempt(cmd, IF success THEN "success" ELSE "failed"))]
            /\ pc' = [pc EXCEPT ![c] = IF success THEN "read" ELSE next_after(k)]
    /\ UNCHANGED <<installed, pid, result, avail>>
    /\ UNCHANGED audioVars

\* std::fs::read_to_string
read_to_string(path) ==
    IF fs[path] = NoFile THEN Err("No such file or directory")
    ELSE IF \E i \in 1..Len(fs[path].text) : fs[path].text[i] = InvalidByte
    THEN Err("stream did not contain valid UTF-8")
    ELSE [tag |-> "Ok", text |-> fs[path].text]


\* line 112: text.trim().to_string()
trimmed(s) == trim(s)

\* lines 108-116: the candidate exited successfully; read <output_path>.txt
ReadOutput(c) ==
    /\ pc[c] = "read"
    /\ LET k == Len(tried[c])
           path == with_extension(output_path(pid[c]), "txt")
           r == read_to_string(path)
       IN
       IF r.tag = "Ok"
       THEN /\ result' = [result EXCEPT ![c] =
                            Ok(trimmed(r.text),
                               [call |-> fs[path].by, cmd |-> fs[path].cmd, raw |-> r.text])]
            /\ tried' = [tried EXCEPT ![c][k].obs = "ok"]
            /\ pc' = [pc EXCEPT ![c] = "rm_audio"]
       ELSE /\ tried' = [tried EXCEPT ![c][k].obs = "unreadable"]
            /\ pc' = [pc EXCEPT ![c] = next_after(k)]
            /\ UNCHANGED result
    /\ UNCHANGED <<installed, fs, pid, avail>>
    /\ UNCHANGED audioVars

\* lines 123-138: faster-whisper, its stdout taken on success; then the terminal error
RunFasterWhisper(c) ==
    /\ pc[c] = "fallback"
    /\ IF ~can_start(faster_whisper)
       THEN /\ tried' = [tried EXCEPT ![c] = Append(@, Attempt(faster_whisper, "not_found"))]
            /\ result' = [result EXCEPT ![c] = Err(ErrExhausted)]
       ELSE \E success \in BOOLEAN, stdout \in Texts :
            /\ tried' = [tried EXCEPT ![c] =
                           Append(@, Attempt(faster_whisper,
                                             IF success THEN "ok" ELSE "failed"))]
            /\ result' = [result EXCEPT ![c] =
                            IF success
                            THEN Ok(trimmed(stdout),
                                    [call |-> c, cmd |-> faster_whisper, raw |-> stdout])
                            ELSE Err(ErrExhausted)]
    /\ pc' = [pc EXCEPT ![c] = "rm_audio"]
    /\ UNCHANGED <<installed, fs, pid, avail>>
    /\ UNCHANGED audioVars

\* std::fs::remove_file, its result discarded
remove_file(path) == [fs EXCEPT ![path] = NoFile]

\* line 73
RemoveAudio(c) ==
    /\ pc[c] = "rm_audio"
    /\ fs' = remove_file(audio_path(pid[c]))
    /\ pc' = [pc EXCEPT ![c] = "rm_output"]
    /\ UNCHANGED <<installed, pid, tried, result, avail>>
    /\ UNCHANGED audioVars

\* lines 74-76
RemoveOutput(c) ==
    /\ pc[c] = "rm_output"
    /\ fs' = remove_file(with_extension(output_path(pid[c]), "txt"))
    /\ pc' = [pc EXCEPT ![c] = "done"]
    /\ UNCHANGED <<installed, pid, tried, result, avail>>
    /\ UNCHANGED audioVars

(***************************************************************************)
(* audio_session.rs                                                        *)
(***************************************************************************)
ErrNoSession == "Failed to get AVAudioSession instance"
ErrCategory == "Failed to set audio session category"
ErrActivate == "Failed to activate audio session"

Unit == [tag |-> "Ok"]

\* what one Objective-C call answered: the BOOL it returned and whether it
\* set the NSError out-parameter
Answers == [success : BOOLEAN, error : BOOLEAN]

\* lines 33-76 (macOS) and 175-178 (other platforms)
activate_voice_session(os, null, cat, act) ==
    IF os # "macos" THEN Unit
    ELSE IF null THEN Err(ErrNoSession)
    ELSE IF ~cat.success \/ cat.error THEN Err(ErrCategory)
    ELSE IF ~act.success \/ act.error THEN Err(ErrActivate)
    ELSE Unit

\* deactivation that reports a refused request, the way activation does
deactivate_surfacing_failure(os, null, deact) ==
    IF os # "macos" THEN Unit
    ELSE IF null THEN Err(ErrNoSession)
    ELSE IF ~deact.success \/ deact.error THEN Err("Failed to deactivate audio session")
    ELSE Unit

\* lines 82-110 (macOS) and 182-185 (other platforms)
deactivate_voice_session(os, null, deact) ==
    IF os # "macos" THEN Unit
    ELSE IF null THEN Err(ErrNoSession)
    ELSE Unit

ActivateVoiceSession ==
    /\ Len(audioLog) < MaxAudioCalls
    /\ \E null \in BOOLEAN, cat \in Answers, act \in Answers :
         LET r == activate_voice_session(platform, null, cat, act) IN
         /\ audioLog' = Append(audioLog,
                [cmd |-> "activate", null |-> null, answer |-> act, result |-> r])
         \* the session becomes active when setActive:true was reached and granted
         /\ sessionActive' =
              IF platform = "macos" /\ ~null /\ cat.success /\ ~cat.error /\ act.success
              THEN TRUE ELSE sessionActive
    /\ UNCHANGED platform
    /\ UNCHANGED sttVars

DeactivateVoiceSession ==
    /\ Len(audioLog) < MaxAudioCalls
    /\ \E null \in BOOLEAN, deact \in Answers :
         LET r == deactivate_voice_session(platform, null, deact) IN
         /\ audioLog' = Append(audioLog,
                [cmd |-> "deactivate", null |-> null, answer |-> deact, result |-> r])
         /\ sessionActive' =
              IF platform = "macos" /\ ~null /\ deact.success
              THEN FALSE ELSE sessionActive
    /\ UNCHANGED platform
    /\ UNCHANGED sttVars

(***************************************************************************)
(* Specifications                                                          *)
(***************************************************************************)
NoResult == [tag |-> "None"]

Init ==
    /\ installed \in SUBSET Cmds
    /\ fs = [p \in Paths |-> NoFile]
    /\ pc = [c \in Calls |-> "idle"]
    /\ pid = [c \in Calls |-> 1]
    /\ tried = [c \in Calls |-> <<>>]
    /\ result = [c \in Calls |-> NoResult]
    /\ avail = NoResult
    /\ platform \in {"macos", "other"}
    /\ sessionActive = FALSE
    /\ audioLog = <<>>

SttInit ==
    /\ Init
    /\ platform = "other"

AudioInit ==
    /\ Init
    /\ installed = {}

SttNext ==
    \/ CheckWhisperAvailable
    \/ \E c \in Calls : Begin(c)
    \/ \E c \in Calls : FileCreate(c)
    \/ \E c \in Calls : WriteAll(c)
    \/ \E c \in Calls : RunCandidate(c)
    \/ \E c \in Calls : ReadOutput(c)
    \/ \E c \in Calls : RunFasterWhisper(c)
    \/ \E c \in Calls : RemoveAudio(c)
    \/ \E c \in Calls : RemoveOutput(c)

AudioNext ==
    \/ ActivateVoiceSession
    \/ DeactivateVoiceSession

\* the transcription commands
Spec == SttInit /\ [][SttNext]_vars

\* the audio-session commands
AudioSpec == AudioInit /\ [][AudioNext]_vars

(***************************************************************************)
(* Properties                                                              *)
(***************************************************************************)
InProgress(c) == pc[c] \notin {"idle", "done"}
Returned(c) == pc[c] = "done"
StagingErrors == {Err(ErrCreate), Err(ErrWrite)}
\* the candidates of transcribe_audio, in the order the specification gives
Candidates == <<"whisper", "whisper-cpp", "faster-whisper">>
CandidateSet == {Candidates[i] : i \in 1..Len(Candidates)}
\* try_whisper_cli has returned for call c
Attempted(c) == pc[c] \in {"rm_audio", "rm_output", "done"} /\ result[c] \notin StagingErrors
                  /\ result[c] # Err(ErrDecode)
TempPaths(c) == {audio_path(pid[c]), with_extension(output_path(pid[c]), "txt")}

\* C1: when a call has returned, no temporary input or output file that the
\* call created or wrote remains in the temporary directory, whatever the
\* exit path.
C1_NoTempFileRemains ==
    \A c \in Calls :
        Returned(c) =>
            \A path \in TempPaths(c) : fs[path] = NoFile \/ fs[path].by # c

\* C2: two calls in progress at the same time never share a temporary input
\* path or a temporary output path.
C2_TempNamesUniquePerCall ==
    \A a, b \in Calls :
        (a # b /\ InProgress(a) /\ InProgress(b)) =>
            /\ audio_path(pid[a]) # audio_path(pid[b])
            /\ output_path(pid[a]) # output_path(pid[b])

\* C3: calls are independent under any interleaving: while a call can still
\* run a candidate its input file holds the bytes it staged, a transcript it
\* returns was produced by one of its own candidates, and no step of another
\* call removes the artifact a call is about to read.
C3_InputIntact ==
    \A a \in Calls :
        pc[a] \in {"run", "read", "fallback"} =>
            fs[audio_path(pid[a])] = [by |-> a, full |-> TRUE]

C3_OwnTranscript ==
    \A a \in Calls : result[a].tag = "Ok" => result[a].from.call = a

C3_ArtifactKept ==
    \A a \in Calls :
        (pc[a] = "read" /\ pc'[a] = "read" /\ fs[txt_path(pid[a])] # NoFile) =>
            fs'[txt_path(pid[a])] # NoFile

\* C3 (as one formula): the input stays intact, the transcript is the call's
\* own, and a concurrent step never removes the artifact about to be read.
C3_RequestsIndependent ==
    /\ [](C3_InputIntact /\ C3_OwnTranscript)
    /\ [][C3_ArtifactKept]_vars

\* C4: the candidates are invoked one at a time in declaration order, and the
\* first one that succeeds ends the call: the call returns that candidate's
\* own output, trimmed, and nothing is invoked after it.
C4_FirstSuccessWins ==
    \A c \in Calls :
        /\ Len(tried[c]) <= Len(Candidates)
        /\ \A i \in 1..Len(tried[c]) :
            /\ tried[c][i].cmd = Candidates[i]
            /\ tried[c][i].obs = "ok" =>
                /\ i = Len(tried[c])
                /\ result[c].tag = "Ok"
                /\ result[c].from.call = c
                /\ result[c].from.cmd = Candidates[i]
                /\ result[c].text = trim(result[c].from.raw)

\* C5: a candidate that is missing, exits with a failure status or leaves no
\* readable artifact never ends the call: the terminal error is returned only
\* after the last candidate, and a transcript that is returned was never left
\* behind by an earlier candidate of the call.
C5_FailuresAbsorbed ==
    \A c \in Calls :
        /\ result[c] = Err(ErrExhausted) => Len(tried[c]) = Len(Candidates)
        /\ result[c].tag = "Ok" =>
             \A i \in 1..(Len(tried[c]) - 1) :
                 ~(result[c].from.call = c /\ result[c].from.cmd = tried[c][i].cmd)

\* C6: once the input is staged, the call ends with the exhaustion error
\* exactly when all three candidates were invoked and none of them gave the
\* runner usable output (it was not found, exited with a failure status, or
\* its artifact could not be read); with no candidate installed the result is
\* that error.
C6_ExhaustionExactly ==
    \A c \in Calls :
        /\ result[c] = Err(ErrExhausted) => Attempted(c)
        /\ Attempted(c) =>
            /\ result[c] = Err(ErrExhausted) <=>
                 /\ {tried[c][i].cmd : i \in 1..Len(tried[c])} = CandidateSet
                 /\ \A i \in 1..Len(tried[c]) : tried[c][i].obs # "ok"
            /\ (CandidateSet \cap installed = {}) => result[c] = Err(ErrExhausted)

C6_Witness ==
    \E c \in Calls :
        /\ Returned(c)
        /\ result[c] = Err(ErrExhausted)
        /\ tried[c][2].obs = "unreadable"
        /\ tried[c][3].obs = "failed"

\* C7: when the temporary input file cannot be created or written, the call
\* returns the error at once and has invoked no candidate.
C7_StagingFailureIsTerminal ==
    \A c \in Calls :
        result[c] \in StagingErrors => (Returned(c) /\ tried[c] = <<>>)

C7_Witness ==
    \E c \in Calls :
        /\ result[c] = Err(ErrWrite)
        /\ Returned(c)
        /\ CandidateSet \subseteq installed

\* C8: a successful result is never the empty string.
C8_OkIsNonEmpty ==
    \A c \in Calls : result[c].tag = "Ok" => result[c].text # <<>>

\* C10: the probe never fails, answers true exactly when one of whisper,
\* whisper-cpp, main, faster-whisper can be started, and answers true in
\* every environment in which a call has returned a transcript.
C10_ProbeConsistent ==
    avail # NoResult =>
        /\ avail.tag = "Ok"
        /\ avail.value <=>
             (installed \cap {"whisper", "whisper-cpp", "main", "faster-whisper"} # {})
        /\ \A c \in Calls : result[c].tag = "Ok" => avail.value

C10_Witness ==
    /\ avail # NoResult
    /\ installed = {faster_whisper}
    /\ \E c \in Calls : Returned(c) /\ result[c].tag = "Ok"

\* C9: deactivate_voice_session returns Ok(()) whenever the session instance
\* was obtained, whatever setActive(false) answered; it fails only for a null
\* instance, and never on a platform other than macOS.
C9_DeactivationFailureSwallowed ==
    \A i \in 1..Len(audioLog) :
        audioLog[i].cmd = "deactivate" =>
            /\ platform # "macos" => audioLog[i].result = Unit
            /\ platform = "macos" =>
                 /\ ~audioLog[i].null => audioLog[i].result = Unit
                 /\ audioLog[i].null => audioLog[i].result = Err(ErrNoSession)

C9_Witness ==
    \E i \in 1..Len(audioLog) :
        /\ audioLog[i].cmd = "deactivate"
        /\ platform = "macos"
        /\ ~audioLog[i].null
        /\ ~audioLog[i].answer.success
        /\ audioLog[i].answer.error
        /\ audioLog[i].result = Unit

====
